---- MODULE Spec2Model ----
(***************************************************************************)
(* A model of the self-play training orchestrator of GATZero:              *)
(*   src/self_play.py            SelfPlay.executeEpisode, SelfPlay.learn,  *)
(*                               saveTrainExamples, loadTrainExamples      *)
(*   src/networks/tictactoe_gat.py  NNetWrapper.save_checkpoint /          *)
(*                               load_checkpoint / train                   *)
(*                                                                         *)
(* Five specifications share the module:                                   *)
(*   Spec            learn() (after an optional loadTrainExamples()) run   *)
(*                   by world_size processes, one program counter per rank;*)
(*   SpecEpisode     one call of executeEpisode();                         *)
(*   SpecGate        the accept/reject test of learn() on its own, over    *)
(*                   all arena results of up to GateMaxGames games;        *)
(*   SpecPersist     saveTrainExamples() in one process, then              *)
(*                   loadTrainExamples() in the next;                      *)
(*   SpecCheckpoint  one predictor's train(), save_checkpoint() and        *)
(*                   load_checkpoint().                                    *)
(***************************************************************************)
EXTENDS Integers, Sequences, FiniteSets, TLC

(***************************************************************************)
(* Bounds of the model.  The arguments of the run (the fields of args)    *)
(* are set outside the two source files, so each is a bound here.          *)
(***************************************************************************)
MaxWorkers == 2
\* Not a multiple of MaxWorkers: the division of line 79 leaves a remainder.
numEps == 3
MaxEpisodeExamples == 2
maxlenOfQueue == 2
numItersForTrainExamplesHistory == 2
arenaCompare == 2
GateMaxGames == 100
MaxTrains == 2
MaxPlies == 4
NumSymmetries == 2
NumActions == 2

\* One iteration more than the window, so that the window overflows.
numIters == numItersForTrainExamplesHistory + 1
\* An examples file of an earlier run may hold one batch more than this
\* run's window (that run's numItersForTrainExamplesHistory was larger).
MaxPrevIters == numItersForTrainExamplesHistory + 1
\* args.updateThreshold as the fraction <<numerator, denominator>> = 0.55.
updateThreshold == <<55, 100>>

(***************************************************************************)
(* Sequences.                                                              *)
(***************************************************************************)
RECURSIVE Flatten(_)
Flatten(h) == IF h = <<>> THEN <<>> ELSE Head(h) \o Flatten(Tail(h))

RECURSIVE SumLen(_)
SumLen(h) == IF h = <<>> THEN 0 ELSE Len(Head(h)) + SumLen(Tail(h))

Reverse(s) == [k \in 1..Len(s) |-> s[Len(s) + 1 - k]]

Rotate(s, r) == [k \in 1..Len(s) |-> s[((k - 1 + r) % Len(s)) + 1]]

LastN(s, n) == IF Len(s) <= n THEN s ELSE SubSeq(s, Len(s) - n + 1, Len(s))

Min(a, b) == IF a <= b THEN a ELSE b

Range(s) == {s[k] : k \in 1..Len(s)}

VARIABLES
    \* ---- the run (Spec) ----
    world_size,            \* dist.get_world_size(), 1 when not distributed
    distributed,           \* args.distributed
    load_folder_file,      \* args.load_folder_file[1]: the model file to resume from
    examplesFile,          \* the file loadTrainExamples looks for: <<>> or <<pickle>>
    pc,                    \* pc[rank]: where the process of that rank is
    iter,                  \* iter[rank]: i of "for i in range(1, numIters + 1)"
    episode,               \* episode[rank]: episodes run in the current self-play
    produced,              \* produced[rank]: examples generated in the current self-play
    iterationTrainExamples,\* per rank: deque(maxlen = maxlenOfQueue)
    all_examples,          \* per rank: the list all_gather_object filled
    trainExamplesHistory,  \* per rank: self.trainExamplesHistory
    skipFirstSelfPlay,     \* per rank: self.skipFirstSelfPlay
    trainExamples,         \* per rank: the local trainExamples of learn()
    nnet,                  \* per rank: state of self.nnet
    pnet,                  \* per rank: state of self.pnet
    checkpoints,           \* the checkpoint folder: file name -> <<>> or <<state>>
    examplesFiles,         \* the checkpoint folder: iteration -> <<>> or <<pickle>>
    \* ---- observers of the run (no counterpart in the code) ----
    decision,              \* decision[i]: "none", "ACCEPT" or "REJECT" of iteration i
    preTrain,              \* preTrain[i]: rank 0's nnet just before train() of iteration i
    postTrain,             \* postTrain[i]: rank 0's nnet just after train() of iteration i
    generated,             \* generated[i]: examples generated by all ranks in iteration i
    appended,              \* every batch rank 0 appended to the history, in order
    atIterStart,           \* checkpoints when rank 0 entered its current iteration
    written,               \* written[k]: the history saveTrainExamples(k) was called with
    examplesWriters,       \* the ranks that wrote an examples file
    evaluations,           \* evaluations[i]: the ranks that ran the arena in iteration i, in order
    \* ---- one episode (SpecEpisode) ----
    e_pc, board, curPlayer, episodeStep, tempThreshold, temps, pendingExamples,
    r, returned,
    \* ---- the gate alone (SpecGate) ----
    g_pc, g_arena, g_threshold, g_decision,
    \* ---- one predictor and its checkpoints (SpecCheckpoint) ----
    ck_pc, ck_nnet, ck_folder, ck_filename, ck_saved, ck_before

runVars == <<world_size, distributed, load_folder_file, examplesFile, pc, iter, episode, produced,
             iterationTrainExamples, all_examples, trainExamplesHistory,
             skipFirstSelfPlay, trainExamples, nnet, pnet, checkpoints,
             examplesFiles, decision, preTrain, postTrain, generated, appended,
             atIterStart, written, examplesWriters, evaluations>>
episodeVars == <<e_pc, board, curPlayer, episodeStep, tempThreshold, temps,
                 pendingExamples, r, returned>>
gateVars == <<g_pc, g_arena, g_threshold, g_decision>>
checkpointVars == <<ck_pc, ck_nnet, ck_folder, ck_filename, ck_saved, ck_before>>
vars == <<runVars, episodeVars, gateVars, checkpointVars>>
\* What no step of the run changes: its configuration, and the variables of
\* the other specifications.
cfgVars == <<world_size, distributed, load_folder_file, examplesFile, episodeVars,
             gateVars, checkpointVars>>
\* The observers only the append and the arena change.
obsVars == <<written, examplesWriters, evaluations>>

(***************************************************************************)
(* The predictor (NNetWrapper).  Its state is what save_checkpoint writes: *)
(* the four state dicts.  Each is modelled by its lineage, the sequence of *)
(* iterations whose train() produced it.                                   *)
(***************************************************************************)
Predictor(l) == [state_dict |-> l, optimizer |-> l, scheduler |-> l, scaler |-> l]

\* self.nnet as constructed; self.pnet is another instance of the same class
\* (its own random weights), line 35.
InitialNnet == Predictor(<<>>)
InitialPnet == Predictor(<<0>>)

\* NNetWrapper.train run in iteration i: the optimizer steps change the
\* weights, the optimizer, the scheduler and the scaler.
TrainStep(p, i) ==
    [state_dict |-> Append(p.state_dict, i), optimizer |-> Append(p.optimizer, i),
     scheduler |-> Append(p.scheduler, i), scaler |-> Append(p.scaler, i)]

\* File names of the checkpoint folder.
TempFile == <<"temp.pth.tar", 0>>
BestFile == <<"best.pth.tar", 0>>
getCheckpointFile(iteration) == <<"checkpoint_", iteration>>
CheckpointNames ==
    {TempFile, BestFile} \cup {getCheckpointFile(i) : i \in 1..numIters}

\* NNetWrapper.save_checkpoint: the folder with the file (over)written.
SaveWeightsOnly(folder, filename, p) ==
    [folder EXCEPT ![filename] =
        <<[state_dict |-> p.state_dict, optimizer |-> <<>>,
           scheduler |-> <<>>, scaler |-> <<>>]>>]

save_checkpoint(folder, filename, p) ==
    [folder EXCEPT ![filename] =
        <<[state_dict |-> p.state_dict, optimizer |-> p.optimizer,
           scheduler |-> p.scheduler, scaler |-> p.scaler]>>]

\* NNetWrapper.load_checkpoint: the predictor's state after loading the file,
\* (below: a load that gives the optimizer the weights' entry)
LoadMixesEntries(folder, filename) ==
    LET checkpoint == folder[filename][1]
    IN  [state_dict |-> checkpoint.state_dict, optimizer |-> checkpoint.state_dict,
         scheduler |-> checkpoint.scheduler, scaler |-> checkpoint.scaler]

\* NNetWrapper.load_checkpoint: the predictor's state after loading the file,
\* which exists (a missing file raises ValueError at line 295; learn() loads
\* temp.pth.tar only, right after saving it).
load_checkpoint(folder, filename) ==
    LET checkpoint == folder[filename][1]
    IN  [state_dict |-> checkpoint.state_dict, optimizer |-> checkpoint.optimizer,
         scheduler |-> checkpoint.scheduler, scaler |-> checkpoint.scaler]

(***************************************************************************)
(* The gate of learn(), line 144.  The arena returns (pwins, nwins, draws);*)
(* the threshold is the fraction thr[1] / thr[2] with thr[2] > 0, and      *)
(* float(nwins) / (pwins + nwins) < thr is compared by cross               *)
(* multiplication (the divisor is positive where Python evaluates it).     *)
(***************************************************************************)
RejectsLessOrEqual(pwins, nwins, thr) ==
    pwins + nwins = 0 \/ nwins * thr[2] <= thr[1] * (pwins + nwins)

RejectsNewModel(pwins, nwins, thr) ==
    pwins + nwins = 0 \/ nwins * thr[2] < thr[1] * (pwins + nwins)

GateDecision(pwins, nwins, thr) ==
    IF RejectsNewModel(pwins, nwins, thr) THEN "REJECT" ELSE "ACCEPT"

(***************************************************************************)
(* IterationBatch and ReplayHistory.                                       *)
(***************************************************************************)
\* deque(maxlen = maxlenOfQueue) += xs: the oldest elements fall out.
DequeExtend(d, xs) == LastN(d \o xs, maxlenOfQueue)

\* Lines 93-97: append the batch; pop(0) once when the window is exceeded.
AddIterationNoPop(history, batch) == Append(history, batch)

AddIterationPopNewest(history, batch) ==
    IF Len(history) + 1 > numItersForTrainExamplesHistory
    THEN history ELSE Append(history, batch)

AddIteration(history, batch) ==
    LET h == Append(history, batch)
    IN  IF Len(h) > numItersForTrainExamplesHistory THEN Tail(h) ELSE h

\* Lines 103-106: shuffle() returns some permutation; the model draws from
\* three: the list as it is, rotated by one, and reversed.
Shuffles(s) ==
    IF s = <<>> THEN {<<>>}
    ELSE {s, Rotate(s, 1), Reverse(s)}

\* The examples executeEpisode returns to learn(): n of them, named by the
\* iteration, the rank and their number within the rank's self-play.
EpisodeExamples(i, w, from, n) == [k \in 1..n |-> <<i, w, from + k>>]

\* Pickler(f).dump(self.trainExamplesHistory), lines 164-165: the list is
\* written batch by batch, a deque as its maxlen and its items.
Pickle(history) ==
    [b \in 1..Len(history) |-> [maxlen |-> maxlenOfQueue, items |-> history[b]]]

\* Unpickler(f).load(), lines 178-179: the list is rebuilt, each deque from
\* its items under its maxlen.
Unpickle(pickle) ==
    [b \in 1..Len(pickle) |-> LastN(pickle[b].items, pickle[b].maxlen)]

\* What an examples file of an earlier run can hold: a history of full
\* batches (maxlenOfQueue examples each, all of "iteration 0"), one batch
\* or MaxPrevIters of them.
PrevHistory(n) == [b \in 1..n |-> [k \in 1..maxlenOfQueue |-> <<0, b, k>>]]
PrevHistories == {PrevHistory(n) : n \in {1, MaxPrevIters}}

\* The examples file that belongs to a model file of the checkpoint folder,
\* lines 169-171: <model file>.examples, which saveTrainExamples(k) writes
\* for the model file checkpoint_<k>.pth.tar only.
ExamplesFileOf(files, modelFile) ==
    IF modelFile[1] = "checkpoint_" /\ modelFile[2] \in DOMAIN files
    THEN files[modelFile[2]] ELSE <<>>

\* The arena's results: arenaCompare games (Arena.playGames is not in src).
ArenaResults ==
    {<<pn[1], pn[2], arenaCompare - pn[1] - pn[2]>> :
        pn \in {x \in (0..arenaCompare) \X (0..arenaCompare) : x[1] + x[2] <= arenaCompare}}

(***************************************************************************)
(* The run: loadTrainExamples() when a resume is requested, then learn().  *)
(***************************************************************************)
Ranks == 0..(world_size - 1)

\* The state of every process after SelfPlay.__init__, lines 21-41, and an
\* empty checkpoint folder.
RunStart ==
    /\ iter = [w \in Ranks |-> 1]
    /\ episode = [w \in Ranks |-> 0]
    /\ produced = [w \in Ranks |-> 0]
    /\ iterationTrainExamples = [w \in Ranks |-> <<>>]
    /\ all_examples = [w \in Ranks |-> <<>>]
    /\ trainExamplesHistory = [w \in Ranks |-> <<>>]
    /\ skipFirstSelfPlay = [w \in Ranks |-> FALSE]
    /\ trainExamples = [w \in Ranks |-> <<>>]
    \* DDP broadcasts rank 0's parameters when it wraps the module
    \* (tictactoe_gat.py line 208): every rank starts from the same state.
    /\ nnet = [w \in Ranks |-> InitialNnet]
    /\ pnet = [w \in Ranks |-> InitialPnet]
    /\ checkpoints = [n \in CheckpointNames |-> <<>>]
    /\ examplesFiles = [k \in 0..(numIters - 1) |-> <<>>]
    /\ decision = [i \in 1..numIters |-> "none"]
    /\ preTrain = [i \in 1..numIters |-> <<>>]
    /\ postTrain = [i \in 1..numIters |-> <<>>]
    /\ generated = [i \in 1..numIters |-> 0]
    /\ appended = <<>>
    /\ atIterStart = [n \in CheckpointNames |-> <<>>]
    /\ written = [k \in 0..(numIters - 1) |-> <<>>]
    /\ examplesWriters = {}
    /\ evaluations = [i \in 1..numIters |-> <<>>]

RunInit ==
    /\ world_size \in 1..MaxWorkers
    /\ distributed \in BOOLEAN
    /\ (world_size > 1 => distributed)
    /\ \E resume \in BOOLEAN :
          /\ pc = [w \in Ranks |-> IF resume THEN "load" ELSE "loop"]
          /\ IF resume
             THEN examplesFile \in {<<>>} \cup {<<Pickle(h)>> : h \in PrevHistories}
             ELSE examplesFile = <<>>
    /\ load_folder_file = BestFile
    /\ RunStart

learnVars == <<iter, episode, produced, iterationTrainExamples, all_examples,
               trainExamples, nnet, pnet, checkpoints, examplesFiles, decision,
               preTrain, postTrain, generated, appended, atIterStart>>

\* Where loadTrainExamples goes after its rank-0 block, lines 185-186.
AfterLoad == IF distributed THEN "loadBarrier" ELSE "loop"

\* Lines 168-183, rank 0, the file exists: the history is replaced by the
\* file's and the flag is set.
LoadFound ==
    /\ pc[0] = "load" /\ examplesFile # <<>>
    /\ trainExamplesHistory' =
          [trainExamplesHistory EXCEPT ![0] = Unpickle(examplesFile[1])]
    /\ skipFirstSelfPlay' = [skipFirstSelfPlay EXCEPT ![0] = TRUE]
    /\ pc' = [pc EXCEPT ![0] = AfterLoad]
    /\ UNCHANGED <<cfgVars, obsVars, learnVars>>

\* Lines 171-175, rank 0, no file, the user answers "y".
LoadMissingContinue ==
    /\ pc[0] = "load" /\ examplesFile = <<>>
    /\ pc' = [pc EXCEPT ![0] = AfterLoad]
    /\ UNCHANGED <<cfgVars, obsVars, trainExamplesHistory,
                   skipFirstSelfPlay, learnVars>>

\* Lines 171-175, rank 0, no file, any other answer: sys.exit().
LoadMissingExit ==
    /\ pc[0] = "load" /\ examplesFile = <<>>
    /\ pc' = [pc EXCEPT ![0] = "exited"]
    /\ UNCHANGED <<cfgVars, obsVars, trainExamplesHistory,
                   skipFirstSelfPlay, learnVars>>

\* Line 168 on a rank other than 0: the block is skipped.
\* (below: a rank other than 0 that loads the file as well)
LoadEveryRank(w) ==
    /\ w # 0 /\ pc[w] = "load"
    /\ trainExamplesHistory' =
          [trainExamplesHistory EXCEPT
              ![w] = IF examplesFile = <<>> THEN @ ELSE Unpickle(examplesFile[1])]
    /\ pc' = [pc EXCEPT ![w] = AfterLoad]
    /\ UNCHANGED <<cfgVars, obsVars, skipFirstSelfPlay, learnVars>>

\* Line 168 on a rank other than 0: the block is skipped.
LoadOther(w) ==
    /\ w # 0 /\ pc[w] = "load"
    /\ pc' = [pc EXCEPT ![w] = AfterLoad]
    /\ UNCHANGED <<cfgVars, obsVars, trainExamplesHistory,
                   skipFirstSelfPlay, learnVars>>

\* Line 186: dist.barrier() returns on every rank once every rank is in it.
LoadBarrier ==
    /\ \A w \in Ranks : pc[w] = "loadBarrier"
    /\ pc' = [w \in Ranks |-> "loop"]
    /\ UNCHANGED <<cfgVars, obsVars, trainExamplesHistory,
                   skipFirstSelfPlay, learnVars>>

(***************************************************************************)
(* learn(), lines 71-153, one action per step of a rank.                   *)
(***************************************************************************)
\* Line 79: the episodes one rank runs in a self-play.
episode_num == numEps \div world_size

\* Lines 72-77: the loop's test, then the choice between self-play and the
\* skip.
ForLoop(w) ==
    /\ pc[w] = "loop"
    /\ IF iter[w] > numIters
       THEN /\ pc' = [pc EXCEPT ![w] = "done"]
            /\ UNCHANGED <<iterationTrainExamples, episode, produced>>
       ELSE IF ~skipFirstSelfPlay[w] \/ iter[w] > 1
       THEN /\ pc' = [pc EXCEPT ![w] = "selfplay"]
            /\ iterationTrainExamples' = [iterationTrainExamples EXCEPT ![w] = <<>>]
            /\ episode' = [episode EXCEPT ![w] = 0]
            /\ produced' = [produced EXCEPT ![w] = 0]
       ELSE /\ pc' = [pc EXCEPT ![w] = "flatten"]
            /\ UNCHANGED <<iterationTrainExamples, episode, produced>>
    /\ atIterStart' = IF w = 0 THEN checkpoints ELSE atIterStart
    /\ UNCHANGED <<cfgVars, obsVars, iter, all_examples, trainExamplesHistory, trainExamples,
                   skipFirstSelfPlay, nnet, pnet, checkpoints, examplesFiles,
                   decision, preTrain, postTrain, generated, appended>>

\* Lines 80-82: one episode; its examples are added to the rank's deque.
SelfPlayEpisode(w) ==
    /\ pc[w] = "selfplay" /\ episode[w] < episode_num
    /\ \E n \in 1..MaxEpisodeExamples :
          /\ iterationTrainExamples' =
                [iterationTrainExamples EXCEPT ![w] =
                    DequeExtend(@, EpisodeExamples(iter[w], w, produced[w], n))]
          /\ produced' = [produced EXCEPT ![w] = @ + n]
          /\ generated' = [generated EXCEPT ![iter[w]] = @ + n]
    /\ episode' = [episode EXCEPT ![w] = @ + 1]
    /\ UNCHANGED <<cfgVars, obsVars, pc, iter, all_examples, trainExamplesHistory,
                   skipFirstSelfPlay, trainExamples, nnet, pnet, checkpoints,
                   examplesFiles, decision, preTrain, postTrain, appended,
                   atIterStart>>

\* Line 80 exhausted, line 85: on to the gather, or (one process) to line 92.
SelfPlayDone(w) ==
    /\ pc[w] = "selfplay" /\ episode[w] >= episode_num
    /\ pc' = [pc EXCEPT ![w] = IF distributed THEN "gather" ELSE "append"]
    /\ UNCHANGED <<cfgVars, obsVars, iter, episode, produced, iterationTrainExamples,
                   all_examples, trainExamplesHistory, skipFirstSelfPlay,
                   trainExamples, nnet, pnet, checkpoints, examplesFiles, decision,
                   preTrain, postTrain, generated, appended, atIterStart>>

\* Lines 86-87: all_gather_object returns on every rank, once every rank has
\* called it, with every rank's deque.  Rank 0 goes on to line 90, the
\* others to line 109.
AllGather ==
    /\ \A w \in Ranks : pc[w] = "gather"
    /\ all_examples' =
          [w \in Ranks |-> [v \in 1..world_size |-> iterationTrainExamples[v - 1]]]
    /\ pc' = [w \in Ranks |-> IF w = 0 THEN "combine" ELSE "tensor"]
    /\ UNCHANGED <<cfgVars, obsVars, iter, episode, produced, iterationTrainExamples,
                   trainExamplesHistory, skipFirstSelfPlay, trainExamples, nnet,
                   pnet, checkpoints, examplesFiles, decision, preTrain, postTrain,
                   generated, appended, atIterStart>>

\* Lines 89-90 on rank 0: sum(all_examples, []) adds a deque to a list, and
\* list + deque raises TypeError for every content ([] + deque() as well):
\* learn() ends on rank 0 with the exception, iterationTrainExamples still
\* the rank's own deque.
CombineGathered ==
    /\ pc[0] = "combine"
    /\ pc' = [pc EXCEPT ![0] = "raised"]
    /\ UNCHANGED <<cfgVars, obsVars, iter, episode, produced, iterationTrainExamples,
                   all_examples, trainExamplesHistory, skipFirstSelfPlay,
                   trainExamples, nnet, pnet, checkpoints, examplesFiles, decision,
                   preTrain, postTrain, generated, appended, atIterStart>>

\* saveTrainExamples(iteration), lines 158-165: rank 0 pickles the history
\* into checkpoint_<iteration>.pth.tar.examples.
SaveNewestBatchOnly(files, iteration, history) ==
    [files EXCEPT ![iteration] = <<Pickle(LastN(history, 1))>>]

saveTrainExamples(files, iteration, history) ==
    [files EXCEPT ![iteration] = <<Pickle(history)>>]

\* Lines 92-99 on rank 0: the batch joins the history, the window is
\* enforced, the history is saved under i - 1.
AppendIteration ==
    /\ pc[0] = "append"
    /\ LET h == AddIteration(trainExamplesHistory[0], iterationTrainExamples[0])
       IN  /\ trainExamplesHistory' = [trainExamplesHistory EXCEPT ![0] = h]
           /\ examplesFiles' = saveTrainExamples(examplesFiles, iter[0] - 1, h)
           /\ written' = [written EXCEPT ![iter[0] - 1] = <<h>>]
    /\ examplesWriters' = examplesWriters \cup {0}
    /\ appended' = Append(appended, iterationTrainExamples[0])
    /\ pc' = [pc EXCEPT ![0] = "flatten"]
    /\ UNCHANGED <<cfgVars, evaluations, iter, episode, produced, iterationTrainExamples,
                   all_examples, skipFirstSelfPlay, trainExamples, nnet, pnet,
                   checkpoints, decision, preTrain, postTrain, generated,
                   atIterStart>>

\* Lines 101-106 on rank 0: the training set is the history, flattened and
\* shuffled.
FlattenShuffle ==
    /\ pc[0] = "flatten"
    /\ \E t \in Shuffles(Flatten(trainExamplesHistory[0])) :
          trainExamples' = [trainExamples EXCEPT ![0] = t]
    /\ pc' = [pc EXCEPT ![0] = IF distributed THEN "tensor" ELSE "savetemp"]
    /\ UNCHANGED <<cfgVars, obsVars, iter, episode, produced, iterationTrainExamples,
                   all_examples, trainExamplesHistory, skipFirstSelfPlay, nnet,
                   pnet, checkpoints, examplesFiles, decision, preTrain, postTrain,
                   generated, appended, atIterStart>>

\* Lines 109-111 on rank 0 of a distributed run (reached only when the
\* self-play was skipped): torch.tensor(trainExamples, dtype=float32) is
\* given tuples (board, pi, v) of unequal shapes and raises ValueError.  The
\* restored history is never empty, so the list is not.
CoordinatorTensor ==
    /\ pc[0] = "tensor" /\ trainExamples[0] # <<>>
    /\ pc' = [pc EXCEPT ![0] = "raised"]
    /\ UNCHANGED <<cfgVars, obsVars, iter, episode, produced, iterationTrainExamples,
                   all_examples, trainExamplesHistory, skipFirstSelfPlay,
                   trainExamples, nnet, pnet, checkpoints, examplesFiles, decision,
                   preTrain, postTrain, generated, appended, atIterStart>>

\* Lines 112-117 on a rank other than 0: an empty tensor, then the size
\* broadcast, in which the rank waits for rank 0 (which never calls it, see
\* CombineGathered and CoordinatorTensor).
WorkerTensor(w) ==
    /\ w # 0 /\ pc[w] = "tensor"
    /\ pc' = [pc EXCEPT ![w] = "broadcastSize"]
    /\ UNCHANGED <<cfgVars, obsVars, iter, episode, produced, iterationTrainExamples,
                   all_examples, trainExamplesHistory, skipFirstSelfPlay,
                   trainExamples, nnet, pnet, checkpoints, examplesFiles, decision,
                   preTrain, postTrain, generated, appended, atIterStart>>

\* Line 128: self.nnet.save_checkpoint(temp.pth.tar).
SaveTemp(w) ==
    /\ pc[w] = "savetemp"
    /\ checkpoints' = save_checkpoint(checkpoints, TempFile, nnet[w])
    /\ pc' = [pc EXCEPT ![w] = "loadtemp"]
    /\ UNCHANGED <<cfgVars, obsVars, iter, episode, produced, iterationTrainExamples,
                   all_examples, trainExamplesHistory, skipFirstSelfPlay,
                   trainExamples, nnet, pnet, examplesFiles, decision, preTrain,
                   postTrain, generated, appended, atIterStart>>

\* Line 129: self.pnet.load_checkpoint(temp.pth.tar).
LoadTemp(w) ==
    /\ pc[w] = "loadtemp"
    /\ pnet' = [pnet EXCEPT ![w] = load_checkpoint(checkpoints, TempFile)]
    /\ pc' = [pc EXCEPT ![w] = "train"]
    /\ UNCHANGED <<cfgVars, obsVars, iter, episode, produced, iterationTrainExamples,
                   all_examples, trainExamplesHistory, skipFirstSelfPlay,
                   trainExamples, nnet, checkpoints, examplesFiles, decision,
                   preTrain, postTrain, generated, appended, atIterStart>>

\* Line 132: self.nnet.train(trainExamples).  The list is not used after
\* the call, so the model drops it here.
Train(w) ==
    /\ pc[w] = "train"
    /\ nnet' = [nnet EXCEPT ![w] = TrainStep(@, iter[w])]
    /\ trainExamples' = [trainExamples EXCEPT ![w] = <<>>]
    /\ preTrain' = IF w = 0 THEN [preTrain EXCEPT ![iter[w]] = <<nnet[w]>>]
                   ELSE preTrain
    /\ postTrain' = IF w = 0 THEN [postTrain EXCEPT ![iter[w]] = <<nnet'[w]>>]
                    ELSE postTrain
    \* line 136: the arena is for rank 0
    /\ pc' = [pc EXCEPT ![w] = IF w = 0 THEN "arena" ELSE "endIter"]
    /\ UNCHANGED <<cfgVars, obsVars, iter, episode, produced, iterationTrainExamples,
                   all_examples, trainExamplesHistory, skipFirstSelfPlay,
                   pnet, checkpoints, examplesFiles, decision,
                   generated, appended, atIterStart>>

\* Lines 145-146: what REJECT does to rank 0's predictor.
RejectKeepsTrained(folder, p) == p

RejectRestore(folder, p) == load_checkpoint(folder, TempFile)

\* Lines 148-150: what ACCEPT writes.
AcceptSavesBestOnly(folder, i, p) == save_checkpoint(folder, BestFile, p)

AcceptSave(folder, i, p) ==
    save_checkpoint(save_checkpoint(folder, getCheckpointFile(i), p), BestFile, p)

\* Lines 136-146 on rank 0: the arena's result fails the gate.
ArenaReject ==
    /\ pc[0] = "arena"
    /\ \E res \in ArenaResults : RejectsNewModel(res[1], res[2], updateThreshold)
    /\ nnet' = [nnet EXCEPT ![0] = RejectRestore(checkpoints, @)]
    /\ decision' = [decision EXCEPT ![iter[0]] = "REJECT"]
    /\ evaluations' = [evaluations EXCEPT ![iter[0]] = Append(@, 0)]
    /\ pc' = [pc EXCEPT ![0] = "endIter"]
    /\ UNCHANGED <<cfgVars, written, examplesWriters, iter, episode, produced, iterationTrainExamples,
                   all_examples, trainExamplesHistory, skipFirstSelfPlay,
                   trainExamples, pnet, checkpoints, examplesFiles, preTrain,
                   postTrain, generated, appended, atIterStart>>

\* Lines 136-150 on rank 0: the arena's result passes the gate.
ArenaAccept ==
    /\ pc[0] = "arena"
    /\ \E res \in ArenaResults : ~RejectsNewModel(res[1], res[2], updateThreshold)
    /\ checkpoints' = AcceptSave(checkpoints, iter[0], nnet[0])
    /\ decision' = [decision EXCEPT ![iter[0]] = "ACCEPT"]
    /\ evaluations' = [evaluations EXCEPT ![iter[0]] = Append(@, 0)]
    /\ pc' = [pc EXCEPT ![0] = "endIter"]
    /\ UNCHANGED <<cfgVars, written, examplesWriters, iter, episode, produced, iterationTrainExamples,
                   all_examples, trainExamplesHistory, skipFirstSelfPlay,
                   trainExamples, nnet, pnet, examplesFiles, preTrain, postTrain,
                   generated, appended, atIterStart>>

\* Lines 152-153 and back to line 72, one process: no barrier, the next i.
\* (No rank of a distributed run comes this far: rank 0 has raised, the
\* others wait in a collective.)
EndIteration(w) ==
    /\ pc[w] = "endIter" /\ ~distributed
    /\ iter' = [iter EXCEPT ![w] = @ + 1]
    /\ pc' = [pc EXCEPT ![w] = "loop"]
    /\ UNCHANGED <<cfgVars, obsVars, episode, produced, iterationTrainExamples,
                   all_examples, trainExamplesHistory, skipFirstSelfPlay,
                   trainExamples, nnet, pnet, checkpoints, examplesFiles, decision,
                   preTrain, postTrain, generated, appended, atIterStart>>

Next ==
    \/ LoadFound
    \/ LoadMissingContinue
    \/ LoadMissingExit
    \/ LoadBarrier
    \/ AllGather
    \/ CombineGathered
    \/ AppendIteration
    \/ FlattenShuffle
    \/ CoordinatorTensor
    \/ ArenaReject
    \/ ArenaAccept
    \/ \E w \in Ranks : LoadOther(w)
    \/ \E w \in Ranks : ForLoop(w)
    \/ \E w \in Ranks : SelfPlayEpisode(w)
    \/ \E w \in Ranks : SelfPlayDone(w)
    \/ \E w \in Ranks : WorkerTensor(w)
    \/ \E w \in Ranks : SaveTemp(w)
    \/ \E w \in Ranks : LoadTemp(w)
    \/ \E w \in Ranks : Train(w)
    \/ \E w \in Ranks : EndIteration(w)

(***************************************************************************)
(* The variables of the other specifications, at rest.                     *)
(***************************************************************************)
EpisodeIdle ==
    /\ e_pc = "idle" /\ board = <<>> /\ curPlayer = 1 /\ episodeStep = 0
    /\ tempThreshold = 0 /\ temps = <<>> /\ pendingExamples = <<>>
    /\ r = 0 /\ returned = <<>>

GateIdle ==
    /\ g_pc = "idle" /\ g_arena = <<0, 0, 0>> /\ g_threshold = updateThreshold
    /\ g_decision = "none"

\* A predictor that is never used, and its empty folder.
CheckpointIdle ==
    /\ ck_pc = "idle" /\ ck_nnet = InitialNnet /\ ck_filename = TempFile
    /\ ck_folder = [n \in CheckpointNames |-> <<>>]
    /\ ck_saved = [n \in CheckpointNames |-> <<>>]
    /\ ck_before = InitialNnet

Init == RunInit /\ EpisodeIdle /\ GateIdle /\ CheckpointIdle

Spec == Init /\ [][Next]_vars

(***************************************************************************)
(* SpecGate: the test of line 144 on its own.                              *)
(***************************************************************************)
\* The run's variables at rest: one process that never starts.
RunIdle ==
    /\ world_size = 1 /\ distributed = FALSE /\ examplesFile = <<>>
    /\ load_folder_file = BestFile
    /\ pc = [w \in 0..0 |-> "idle"]
    /\ RunStart

\* Arena results of up to GateMaxGames games, with no draw or with every
\* other game drawn.
GateArenas ==
    UNION {{<<x[1], x[2], 0>>, <<x[1], x[2], GateMaxGames - x[1] - x[2]>>} :
              x \in {y \in (0..GateMaxGames) \X (0..GateMaxGames) :
                        y[1] + y[2] <= GateMaxGames}}

GateThresholds == {<<0, 1>>, <<1, 2>>, updateThreshold, <<3, 5>>, <<1, 1>>}

GateInit ==
    /\ g_pc = "arena"
    /\ g_arena \in GateArenas
    /\ g_threshold \in GateThresholds
    /\ g_decision = "none"
    /\ RunIdle /\ EpisodeIdle /\ CheckpointIdle

\* Lines 141-150: pwins, nwins, draws = arena.playGames(...), then the test.
GateDecide ==
    /\ g_pc = "arena"
    /\ g_decision' = GateDecision(g_arena[1], g_arena[2], g_threshold)
    /\ g_pc' = "decided"
    /\ UNCHANGED <<g_arena, g_threshold, runVars, episodeVars, checkpointVars>>

GateNext == GateDecide

SpecGate == GateInit /\ [][GateNext]_vars

(***************************************************************************)
(* C1.  For every arena result and every threshold the gate accepts the    *)
(* trained predictor exactly when the candidate (nwins) or the incumbent   *)
(* (pwins) won a game and nwins / (nwins + pwins) >= updateThreshold; with *)
(* threshold 0.55, 55 wins to 45 is ACCEPT, 54 to 46 is REJECT and 100     *)
(* draws is REJECT.                                                        *)
(***************************************************************************)
C1_GateAcceptsIff ==
    g_pc = "decided" =>
        LET cand == g_arena[2]
            inc == g_arena[1]
        IN  /\ g_decision \in {"ACCEPT", "REJECT"}
            /\ (g_decision = "ACCEPT") <=>
                  (cand + inc > 0
                   /\ cand * g_threshold[2] >= g_threshold[1] * (cand + inc))
            /\ g_threshold = <<55, 100>> =>
                  /\ (cand = 55 /\ inc = 45) => g_decision = "ACCEPT"
                  /\ (cand = 54 /\ inc = 46) => g_decision = "REJECT"
                  /\ (cand = 0 /\ inc = 0) => g_decision = "REJECT"

C1_Witness ==
    /\ g_pc = "decided" /\ g_threshold = <<55, 100>>
    /\ g_arena = <<45, 55, 0>> /\ g_decision = "ACCEPT"

(***************************************************************************)
(* SpecEpisode: executeEpisode(), lines 43-69.                             *)
(*                                                                         *)
(* The game is not in the source files; it is modelled from its contract:  *)
(* a board is the sequence of the actions played, the players are 1 and    *)
(* -1 and alternate, and get_game_ended answers 0 while the game goes on   *)
(* and 1 or -1, for the player asked about, once it is over (at the        *)
(* latest after MaxPlies plies).                                           *)
(***************************************************************************)
get_init_board == <<>>

get_canonical_form(b, player) == <<b, player>>

get_next_state(b, player, action) == <<Append(b, action), -player>>

\* The answers get_game_ended(b, player) can give.
get_game_ended(b, player) ==
    IF Len(b) >= MaxPlies THEN {1, -1} ELSE {0, 1, -1}

\* get_symmetries(canonicalBoard, pi): NumSymmetries pairs (b, p).
get_symmetries(canonicalBoard, pi) ==
    [k \in 1..NumSymmetries |-> <<<<canonicalBoard, k>>, <<pi, k>>>>]

\* mcts.get_action_prob(canonicalBoard, temp): the distribution, by its
\* arguments.
get_action_prob(canonicalBoard, temp) == <<"pi", canonicalBoard, temp>>

\* Line 52: temp = int(episodeStep < self.args.tempThreshold).
Temperature(step, threshold) == IF step < threshold THEN 1 ELSE 0

\* Line 69: r * ((-1) ** (x[1] != self.curPlayer)).
OutcomeNoFlip(result, mover, player) == result

Outcome(result, mover, player) ==
    result * (IF mover # player THEN -1 ELSE 1)

EpisodeInit ==
    /\ e_pc = "search"
    /\ board = get_init_board
    /\ curPlayer = 1
    /\ episodeStep = 0
    /\ tempThreshold \in 0..(MaxPlies + 1)
    /\ temps = <<>>
    /\ pendingExamples = <<>>
    /\ r = 0
    /\ returned = <<>>
    /\ RunIdle /\ GateIdle /\ CheckpointIdle

\* Lines 50-61: the step counter, the temperature, the search, and one
\* pending example [b, curPlayer, p, None] per symmetry.
EpisodeSearch ==
    /\ e_pc = "search"
    /\ episodeStep' = episodeStep + 1
    /\ LET canonicalBoard == get_canonical_form(board, curPlayer)
           temp == Temperature(episodeStep', tempThreshold)
           pi == get_action_prob(canonicalBoard, temp)
           sym == get_symmetries(canonicalBoard, pi)
       IN  /\ temps' = Append(temps, temp)
           \* (step, the decision point, is kept for the properties only)
           /\ pendingExamples' = pendingExamples \o
                 [k \in 1..Len(sym) |->
                     [b |-> sym[k][1], player |-> curPlayer, p |-> sym[k][2],
                      step |-> episodeStep']]
    /\ e_pc' = "move"
    /\ UNCHANGED <<board, curPlayer, tempThreshold, r, returned, runVars, gateVars,
                   checkpointVars>>

\* Lines 63-69: an action is drawn from pi and played; when the game is
\* over the examples are returned with their outcomes.
EpisodeMove ==
    /\ e_pc = "move"
    /\ \E action \in 1..NumActions :
          LET next == get_next_state(board, curPlayer, action)
          IN  /\ board' = next[1]
              /\ curPlayer' = next[2]
              /\ \E res \in get_game_ended(next[1], next[2]) :
                    /\ r' = res
                    /\ IF res # 0
                       THEN /\ returned' =
                                  [k \in 1..Len(pendingExamples) |->
                                      <<pendingExamples[k].b, pendingExamples[k].p,
                                        Outcome(res, pendingExamples[k].player, next[2])>>]
                            /\ e_pc' = "returned"
                       ELSE /\ returned' = returned
                            /\ e_pc' = "search"
    /\ UNCHANGED <<episodeStep, tempThreshold, temps, pendingExamples, runVars,
                   gateVars, checkpointVars>>

EpisodeNext == EpisodeSearch \/ EpisodeMove

SpecEpisode == EpisodeInit /\ [][EpisodeNext]_vars

(***************************************************************************)
(* C6.  When executeEpisode returns with the game's result r for the       *)
(* player to move at the end, every returned example's outcome is in       *)
(* {-1, 0, 1}: r when the example was recorded for that player, -r         *)
(* otherwise; so the symmetry variants of one decision point share their   *)
(* outcome.                                                                *)
(***************************************************************************)
C6_OutcomeSignLaw ==
    e_pc = "returned" =>
        /\ Len(returned) = Len(pendingExamples)
        /\ \A k \in 1..Len(returned) :
              /\ returned[k][3] \in {-1, 0, 1}
              /\ returned[k][3] =
                    IF pendingExamples[k].player = curPlayer THEN r ELSE -r
              /\ returned[k][1] = pendingExamples[k].b
        /\ \A j, k \in 1..Len(returned) :
              pendingExamples[j].step = pendingExamples[k].step
                 => returned[j][3] = returned[k][3]

C6_Witness ==
    /\ e_pc = "returned" /\ r = 1
    /\ \E j, k \in 1..Len(returned) :
          /\ j # k /\ pendingExamples[j].step = pendingExamples[k].step
          /\ pendingExamples[j].player # curPlayer
          /\ returned[j][3] = -1 /\ returned[k][3] = -1
    /\ \E k \in 1..Len(returned) :
          pendingExamples[k].player = curPlayer /\ returned[k][3] = 1

(***************************************************************************)
(* Properties of the run (Spec).                                           *)
(***************************************************************************)
\* Rank 0 holds the training set it built at lines 103-106.
Flattened == pc[0] \in {"tensor", "savetemp", "loadtemp", "train"}

\* The history rank 0 started learn() with: the restored one, or none.
Restored == IF skipFirstSelfPlay[0] THEN Unpickle(examplesFile[1]) ELSE <<>>

RECURSIVE SumFromTo(_, _, _)
SumFromTo(f, a, b) == IF a > b THEN 0 ELSE f[a] + SumFromTo(f, a + 1, b)

RECURSIVE SumMinFromTo(_, _, _, _)
SumMinFromTo(f, a, b, cap) ==
    IF a > b THEN 0 ELSE Min(f[a], cap) + SumMinFromTo(f, a + 1, b, cap)

C4_AcceptSnapshotsTrained ==
    \A i \in 1..numIters :
        (pc[0] = "endIter" /\ iter[0] = i /\ decision[i] = "ACCEPT") =>
            /\ postTrain[i] # <<>>
            /\ checkpoints[BestFile] = postTrain[i]
            /\ checkpoints[getCheckpointFile(i)] = postTrain[i]
            /\ postTrain[i] = <<nnet[0]>>

C4_Witness ==
    /\ pc[0] = "endIter" /\ iter[0] = 2
    /\ decision[1] = "REJECT" /\ decision[2] = "ACCEPT"
    /\ checkpoints[getCheckpointFile(2)] = <<Predictor(<<2>>)>>
    /\ checkpoints[getCheckpointFile(1)] = <<>>

C7_FifoEviction ==
    LET all == Restored \o appended
        window == numItersForTrainExamplesHistory
        kept == IF Len(Restored) > window THEN Len(Restored)
                ELSE Min(Len(all), window)
    IN  /\ trainExamplesHistory[0] = LastN(all, kept)
        /\ (Restored = <<>> /\ Len(appended) = window + 1) =>
              trainExamplesHistory[0] = Tail(appended)

C7_Witness ==
    /\ Restored = <<>>
    /\ Len(appended) = numItersForTrainExamplesHistory + 1
    /\ Len(trainExamplesHistory[0]) = numItersForTrainExamplesHistory
    /\ trainExamplesHistory[0] = Tail(appended)
    /\ Head(appended) # Head(trainExamplesHistory[0])

(***************************************************************************)
(* C8, as claimed.  Whenever rank 0 holds a flattened training set, it has *)
(* at most numItersForTrainExamplesHistory x maxlenOfQueue examples.       *)
(***************************************************************************)
C8_Original ==
    Flattened =>
        Len(trainExamples[0]) <= numItersForTrainExamplesHistory * maxlenOfQueue

C10_Original ==
    (distributed /\ world_size > 1 /\ all_examples[0] # <<>> /\ pc[0] # "combine") =>
        /\ pc[0] # "raised"
        /\ Len(iterationTrainExamples[0]) = SumLen(all_examples[0])
        /\ \A v \in 1..world_size :
              Range(all_examples[0][v]) \subseteq Range(iterationTrainExamples[0])

(***************************************************************************)
(* C11, as claimed.  In a distributed run of W > 1 ranks the two-phase     *)
(* broadcast of lines 109-125 is carried out: rank 0 does not leave        *)
(* learn() with an exception while it holds the training set it built, no  *)
(* other rank waits in the size broadcast for a rank 0 that has left, and  *)
(* a rank that is past the broadcast holds rank 0's training set, example  *)
(* for example.                                                            *)
(***************************************************************************)
C11_Original ==
    (distributed /\ world_size > 1) =>
        /\ ~(pc[0] = "raised" /\ trainExamples[0] # <<>>)
        /\ \A w \in Ranks \ {0} :
              /\ pc[w] = "broadcastSize" => pc[0] # "raised"
              /\ pc[w] \in {"savetemp", "loadtemp", "train"} =>
                    trainExamples[w] = trainExamples[0]

\* The self-play of a rank: lines 77-87.
SelfPlayPcs == {"selfplay", "gather", "combine", "append"}

\* The two lists hold the same examples (no example occurs twice in a
\* history).
SameExamples(s, t) == Len(s) = Len(t) /\ Range(s) = Range(t)

(***************************************************************************)
(* C12, as claimed.  In a run whose loadTrainExamples() found the file     *)
(* (rank 0's flag is set) no rank runs a self-play in iteration 1, the     *)
(* training set of iteration 1 is the restored history's examples, and     *)
(* every later iteration runs its self-play; in a run with no restore      *)
(* every iteration runs its self-play.                                     *)
(***************************************************************************)
C12_Original ==
    /\ skipFirstSelfPlay[0] =>
          /\ \A w \in Ranks : iter[w] = 1 => pc[w] \notin SelfPlayPcs
          /\ generated[1] = 0
          /\ (Flattened /\ iter[0] = 1) =>
                SameExamples(trainExamples[0], Flatten(Restored))
          /\ (Flattened /\ iter[0] > 1) => generated[iter[0]] > 0
    /\ ~skipFirstSelfPlay[0] =>
          /\ pc[0] = "flatten" => generated[iter[0]] > 0
          /\ Flattened => generated[iter[0]] > 0

(***************************************************************************)
(* C13, as claimed.  When every rank has run the episodes of its           *)
(* self-play, each has run floor(numEps / W) of them and together they     *)
(* have run numEps.                                                        *)
(***************************************************************************)
C13_Original ==
    (\A w \in Ranks : pc[w] \in {"gather", "append"}) =>
        /\ \A w \in Ranks : episode[w] = numEps \div world_size
        /\ SumFromTo(episode, 0, world_size - 1) = numEps

(***************************************************************************)
(* SpecPersist: saveTrainExamples() and loadTrainExamples() around an      *)
(* interruption.  One process runs iterations of learn() (only what        *)
(* concerns the history: the batch its self-play leaves, then lines        *)
(* 92-99); it is stopped after a save and a new process, constructed over  *)
(* the same folder, calls loadTrainExamples() for one of the model files.  *)
(***************************************************************************)
PersistInit ==
    /\ world_size = 1 /\ distributed = FALSE
    /\ load_folder_file = BestFile /\ examplesFile = <<>>
    /\ pc = [w \in 0..0 |-> "selfplay"]
    /\ RunStart
    /\ EpisodeIdle /\ GateIdle /\ CheckpointIdle

\* Lines 77-82: the deque the self-play of the iteration leaves, of up to
\* maxlenOfQueue examples.
PersistSelfPlay ==
    /\ pc[0] = "selfplay"
    /\ \E n \in 0..maxlenOfQueue :
          iterationTrainExamples' =
              [iterationTrainExamples EXCEPT ![0] = EpisodeExamples(iter[0], 0, 0, n)]
    /\ pc' = [pc EXCEPT ![0] = "append"]
    /\ UNCHANGED <<cfgVars, obsVars, iter, episode, produced, all_examples,
                   trainExamplesHistory, skipFirstSelfPlay, trainExamples, nnet,
                   pnet, checkpoints, examplesFiles, decision, preTrain, postTrain,
                   generated, appended, atIterStart>>

\* Lines 101-153 and back to line 72: the rest of the iteration leaves the
\* history and the examples files alone.
PersistEndIteration ==
    /\ pc[0] = "flatten" /\ iter[0] < numIters
    /\ iter' = [iter EXCEPT ![0] = @ + 1]
    /\ pc' = [pc EXCEPT ![0] = "selfplay"]
    /\ UNCHANGED <<cfgVars, obsVars, episode, produced, iterationTrainExamples,
                   all_examples, trainExamplesHistory, skipFirstSelfPlay,
                   trainExamples, nnet, pnet, checkpoints, examplesFiles, decision,
                   preTrain, postTrain, generated, appended, atIterStart>>

\* The model files a resume can name: a checkpoint of an iteration, or best.
ModelFiles == {getCheckpointFile(k) : k \in 0..numIters} \cup {BestFile}

\* The process is stopped; a new one is constructed (lines 21-41: empty
\* history, flag unset) with args.load_folder_file naming a model file of
\* the folder, and calls loadTrainExamples(), which looks for that file's
\* examples file (lines 169-171).
PersistResume ==
    /\ pc[0] = "flatten"
    /\ \E m \in ModelFiles :
          /\ load_folder_file' = m
          /\ examplesFile' = ExamplesFileOf(examplesFiles, m)
    /\ trainExamplesHistory' = [trainExamplesHistory EXCEPT ![0] = <<>>]
    /\ skipFirstSelfPlay' = [skipFirstSelfPlay EXCEPT ![0] = FALSE]
    /\ iterationTrainExamples' = [iterationTrainExamples EXCEPT ![0] = <<>>]
    /\ iter' = [iter EXCEPT ![0] = 1]
    /\ pc' = [pc EXCEPT ![0] = "load"]
    /\ UNCHANGED <<world_size, distributed, episodeVars, gateVars, checkpointVars,
                   obsVars, episode, produced, all_examples, trainExamples, nnet,
                   pnet, checkpoints, examplesFiles, decision, preTrain, postTrain,
                   generated, appended, atIterStart>>

PersistNext ==
    \/ PersistSelfPlay
    \/ AppendIteration
    \/ PersistEndIteration
    \/ PersistResume
    \/ LoadFound
    \/ LoadMissingContinue
    \/ LoadMissingExit

SpecPersist == PersistInit /\ [][PersistNext]_vars

(***************************************************************************)
(* C14.  When loadTrainExamples() has returned in the new process, asked   *)
(* for the examples of checkpoint_<k>: if saveTrainExamples(k) was called  *)
(* before, the history is the one it was called with (the last such call), *)
(* batch for batch and in order, and the skip flag is set; otherwise the   *)
(* history is empty and the flag unset.                                    *)
(***************************************************************************)
C14_RestoreIsWhatWasSaved ==
    pc[0] = "loop" =>
        LET k == load_folder_file[2]
            saved == /\ load_folder_file[1] = "checkpoint_"
                     /\ k \in DOMAIN written
                     /\ written[k] # <<>>
        IN  IF saved
            THEN /\ trainExamplesHistory[0] = written[k][1]
                 /\ skipFirstSelfPlay[0]
            ELSE /\ trainExamplesHistory[0] = <<>>
                 /\ ~skipFirstSelfPlay[0]

C14_Witness ==
    /\ pc[0] = "loop" /\ skipFirstSelfPlay[0]
    /\ load_folder_file = getCheckpointFile(numIters - 1)
    /\ trainExamplesHistory[0] = written[numIters - 1][1]
    /\ Len(trainExamplesHistory[0]) = numItersForTrainExamplesHistory
    /\ \A b \in 1..Len(trainExamplesHistory[0]) :
          Len(trainExamplesHistory[0][b]) = b

(***************************************************************************)
(* SpecCheckpoint: one predictor (NNetWrapper), its train(), and its       *)
(* save_checkpoint() and load_checkpoint() on a folder, in any order.      *)
(* ck_pc tells what the last call was and how it ended, ck_filename its    *)
(* file, ck_before the predictor's state before it, and ck_saved[f] the    *)
(* state the predictor had when it last saved f.                           *)
(***************************************************************************)
\* A predictor as constructed, or one with four different state dicts.
CheckpointStates ==
    {InitialNnet,
     [state_dict |-> <<1>>, optimizer |-> <<2>>, scheduler |-> <<3>>, scaler |-> <<4>>]}

\* The files the calls name.
CheckpointTags == {TempFile, BestFile}

CheckpointInit ==
    /\ ck_pc = "constructed"
    /\ ck_nnet \in CheckpointStates
    /\ ck_before = ck_nnet
    /\ ck_filename = TempFile
    /\ ck_folder = [n \in CheckpointNames |-> <<>>]
    /\ ck_saved = [n \in CheckpointNames |-> <<>>]
    /\ RunIdle /\ EpisodeIdle /\ GateIdle

\* NNetWrapper.train, lines 218-252 (at most MaxTrains calls).
CheckpointTrain ==
    /\ Len(ck_nnet.state_dict) <= MaxTrains
    /\ ck_nnet' = TrainStep(ck_nnet, 1)
    /\ ck_before' = ck_nnet
    /\ ck_pc' = "trained"
    /\ UNCHANGED <<ck_folder, ck_filename, ck_saved, runVars, episodeVars, gateVars>>

\* NNetWrapper.save_checkpoint, lines 280-290.
CheckpointSave ==
    /\ \E filename \in CheckpointTags :
          /\ ck_folder' = save_checkpoint(ck_folder, filename, ck_nnet)
          /\ ck_saved' = [ck_saved EXCEPT ![filename] = <<ck_nnet>>]
          /\ ck_filename' = filename
    /\ ck_before' = ck_nnet
    /\ ck_pc' = "saved"
    /\ UNCHANGED <<ck_nnet, runVars, episodeVars, gateVars>>

\* NNetWrapper.load_checkpoint, lines 292-302, the file exists.
CheckpointLoad ==
    /\ \E filename \in CheckpointTags :
          /\ ck_folder[filename] # <<>>
          /\ ck_nnet' = load_checkpoint(ck_folder, filename)
          /\ ck_filename' = filename
    /\ ck_before' = ck_nnet
    /\ ck_pc' = "loaded"
    /\ UNCHANGED <<ck_folder, ck_saved, runVars, episodeVars, gateVars>>

\* NNetWrapper.load_checkpoint, lines 293-295, no such file: ValueError
\* before anything is loaded.
CheckpointLoadMissing ==
    /\ \E filename \in CheckpointTags :
          /\ ck_folder[filename] = <<>>
          /\ ck_filename' = filename
    /\ ck_before' = ck_nnet
    /\ ck_pc' = "raised"
    /\ UNCHANGED <<ck_nnet, ck_folder, ck_saved, runVars, episodeVars, gateVars>>

CheckpointNext ==
    \/ CheckpointTrain
    \/ CheckpointSave
    \/ CheckpointLoad
    \/ CheckpointLoadMissing

SpecCheckpoint == CheckpointInit /\ [][CheckpointNext]_vars

(***************************************************************************)
(* C15.  After load_checkpoint(f) of a file the predictor saved, its       *)
(* model, optimizer, scheduler and scaler state are those it had when it   *)
(* saved f, whatever it did in between (and save_checkpoint itself leaves  *)
(* the state as it was, so save then load changes nothing); after          *)
(* load_checkpoint(f) of a file never saved the call has raised and the    *)
(* state is the one before the call.                                       *)
(***************************************************************************)
C15_CheckpointRoundTrip ==
    /\ ck_pc = "saved" =>
          /\ ck_nnet = ck_before
          /\ ck_saved[ck_filename] = <<ck_nnet>>
    /\ ck_pc = "loaded" =>
          /\ ck_saved[ck_filename] # <<>>
          /\ ck_nnet.state_dict = ck_saved[ck_filename][1].state_dict
          /\ ck_nnet.optimizer = ck_saved[ck_filename][1].optimizer
          /\ ck_nnet.scheduler = ck_saved[ck_filename][1].scheduler
          /\ ck_nnet.scaler = ck_saved[ck_filename][1].scaler
    /\ ck_pc = "raised" =>
          /\ ck_saved[ck_filename] = <<>>
          /\ ck_nnet = ck_before

C15_Witness ==
    /\ ck_pc = "loaded"
    /\ ck_saved[ck_filename] = <<ck_nnet>>
    /\ ck_before # ck_nnet
    /\ ck_nnet.state_dict # ck_nnet.optimizer
    /\ Len(ck_nnet.state_dict) = 2

(***************************************************************************)
(* C16, as claimed.  A resume that finds no examples file ends in one of   *)
(* two ways: the run goes on with the history and the flag as constructed, *)
(* or rank 0 exits; the flag is set only on a rank that loaded a history;  *)
(* and in a distributed run no rank waits at the barrier of line 186 for a *)
(* rank 0 that has exited.                                                 *)
(***************************************************************************)
C16_Original ==
    /\ \A w \in Ranks :
          skipFirstSelfPlay[w] =>
              examplesFile # <<>> /\ trainExamplesHistory[w] # <<>>
    /\ pc[0] = "exited" =>
          /\ examplesFile = <<>>
          /\ trainExamplesHistory[0] = <<>> /\ ~skipFirstSelfPlay[0]
          /\ \A w \in Ranks : pc[w] # "loadBarrier"
    /\ (examplesFile = <<>> /\ pc[0] \notin {"load", "exited"}) =>
          /\ ~skipFirstSelfPlay[0]
          /\ (pc[0] \in {"loadBarrier", "loop"} /\ iter[0] = 1) =>
                trainExamplesHistory[0] = <<>>

(***************************************************************************)
(* C17, as claimed.  The temperature handed to the search at ply k of an   *)
(* episode is 1 for k = 1 .. tempThreshold and 0 for every later ply.      *)
(***************************************************************************)
C17_Original ==
    \A k \in 1..Len(temps) :
        temps[k] = IF k <= tempThreshold THEN 1 ELSE 0

(***************************************************************************)
(* No rank of a distributed run comes to line 128: rank 0 raises at line   *)
(* 90 or 111, the others wait in a collective.  Saving and loading         *)
(* temp.pth.tar, train(), the arena and the end of an iteration are        *)
(* reached by one-process runs only.                                       *)
(***************************************************************************)
DistributedNeverTrains ==
    distributed =>
        /\ \A w \in Ranks :
              pc[w] \notin {"savetemp", "loadtemp", "train", "arena", "endIter", "done"}
        /\ \A w \in Ranks : iter[w] = 1
        /\ \A n \in CheckpointNames : checkpoints[n] = <<>>

(***************************************************************************)
(* C19.  On every rank other than 0 the history is, at every point of      *)
(* loadTrainExamples() and learn(), the empty list it was constructed      *)
(* with, and only rank 0 ever writes an examples file.                     *)
(***************************************************************************)
C19_HistoryOnlyOnCoordinator ==
    /\ \A w \in Ranks \ {0} : trainExamplesHistory[w] = <<>>
    /\ examplesWriters \subseteq {0}
    /\ (\E k \in DOMAIN examplesFiles : examplesFiles[k] # <<>>) => examplesWriters = {0}

C19_Witness ==
    /\ world_size > 1
    /\ trainExamplesHistory[0] # <<>>
    /\ \E w \in Ranks \ {0} :
          /\ pc[w] = "gather" /\ iterationTrainExamples[w] # <<>>
          /\ trainExamplesHistory[w] = <<>>

(***************************************************************************)
(* C20, as claimed.  In every iteration rank 0 has started and left, the   *)
(* arena was run and the decision taken exactly once, by rank 0, after     *)
(* that iteration's train(); and in no iteration more than once or by      *)
(* another rank.                                                           *)
(***************************************************************************)
C20_Original ==
    \A i \in 1..numIters :
        /\ Len(evaluations[i]) <= 1
        /\ \A k \in 1..Len(evaluations[i]) : evaluations[i][k] = 0
        /\ evaluations[i] # <<>> => (postTrain[i] # <<>> /\ decision[i] # "none")
        /\ evaluations[i] = <<>> => decision[i] = "none"
        /\ (pc[0] \in {"endIter", "raised", "done"} /\ iter[0] = i) \/ iter[0] > i
              => Len(evaluations[i]) = 1

(***************************************************************************)
(* C21, as claimed.  In a distributed run, while a rank is still in the    *)
(* self-play of an iteration or waits in its gather, rank 0 has not, in    *)
(* that iteration, appended a batch, saved the history or built the        *)
(* training set; and a rank is in the self-play of iteration i + 1 only    *)
(* when every rank has reached the barrier of iteration i.                 *)
(***************************************************************************)
C21_Original ==
    distributed =>
        /\ \A w \in Ranks :
              (pc[w] \in {"selfplay", "gather"} /\ iter[w] = iter[0]) =>
                  /\ pc[0] \notin {"tensor", "savetemp", "loadtemp", "train"}
                  /\ trainExamples[0] = <<>>
                  /\ written[iter[0] - 1] = <<>>
        /\ \A w, v \in Ranks :
              (pc[w] = "selfplay" /\ iter[w] > 1) =>
                  \/ iter[v] >= iter[w]
                  \/ iter[v] = iter[w] - 1 /\ pc[v] = "endIter"

(***************************************************************************)
(* SpecFair: the run with every process going on for as long as it has a   *)
(* step to take (every episode, train() and arena call returns; a process  *)
(* stops only at the end of learn(), on an exception, on sys.exit(), or in *)
(* a collective the other ranks have not all entered).                     *)
(***************************************************************************)
SpecFair == Spec /\ WF_vars(Next)

\* learn() has returned on every rank, after numIters iterations.
AllDone == \A w \in Ranks : pc[w] = "done" /\ iter[w] = numIters + 1

(***************************************************************************)
(* C22, as claimed.  In a distributed run of W > 1 ranks, resumed or not,  *)
(* once every rank has entered learn() every rank comes to the end of      *)
(* learn(), numIters iterations done: no rank is left in a collective or   *)
(* on an exception.                                                        *)
(***************************************************************************)
C22_Original ==
    (distributed /\ world_size > 1 /\ \A w \in Ranks : pc[w] = "loop" /\ iter[w] = 1)
        ~> AllDone

====
